---- MODULE Spec2Model ----
(***************************************************************************)
(* A model of the retrieval core of the RAG backend:                       *)
(*   - SimpleVectorStore  (services/simple_vector_store.py): the           *)
(*     in-memory snapshot, add_documents, search, _save_data and           *)
(*     _load_existing_data, with the persisted snapshot file;              *)
(*   - DocumentProcessor._chunk_text (services/document_processor.py).     *)
(*                                                                         *)
(* Python lists are 0-based; the sequences here are 1-based, so an index   *)
(* i of the code is the index i+1 of the model.                            *)
(***************************************************************************)
EXTENDS Integers, Sequences, FiniteSets, TLC

VARIABLES
    documents,      \* self.documents: sequence of Document
    embeddings,     \* self.embeddings: sequence of float32 vectors
    metadata_file,  \* contents of data/processed_documents.json
    alive,          \* the process that owns the store is running
    op,             \* the last operation on the store
    ret,            \* how it ended: "ok", or the exception that reached the caller
    log,            \* what _save_data logged during the last add_documents
    arg_mismatch,   \* the last add_documents got len(documents) # len(embeddings)
    query,          \* query_embedding of the last search
    top_k,          \* top_k of the last search
    top_idx,        \* the indices of similarities[:top_k] of the last search
    results,        \* what the last search returned
    \* one add_documents (the writer) and one search (the reader) in two threads
    pcW,            \* the line the writer is about to run
    w_args,         \* the writer's arguments <<documents, embeddings>>
    pcR,            \* the line the reader is about to run
    r_embs,         \* the list object the loop of line 107 iterates over
    r_top,          \* the reader's similarities[:top_k], as <<similarity, idx>> pairs
    r_pos,          \* the reader's position in the loop of line 122
    r_results,      \* the reader's results list
    pre,            \* the snapshot <<documents, embeddings>> before the writer's call
    \* DocumentProcessor._chunk_text
    text,           \* the text argument, a sequence of characters
    chunk_size,     \* self.chunk_size
    chunk_overlap,  \* self.chunk_overlap
    pc,             \* "call", "loop" (at the test of line 268) or "done"
    start,          \* the local start
    chunks,         \* the local chunks
    windows,        \* the <<start, end>> of every iteration so far
    \* SimpleEmbeddingService
    vocabulary,     \* self.vocabulary: token -> index
    idf_values,     \* self.idf_values: token -> weight
    initialized,    \* self.initialized
    built_from,     \* the texts of the last _build_vocabulary call
    e_texts,        \* texts of the last create_embeddings call
    e_out,          \* what the last create_embeddings call returned
    \* flask_app.py
    app_initialized,  \* the global _initialized
    dir_chunks,       \* the chunk contents the documents directory yields
    req_pc,           \* where each request thread stands in its handler
    ingestions        \* how often the ingestion of lines 52-61 has run

storeVars == <<documents, embeddings, metadata_file, alive>>
callVars == <<op, ret, log, arg_mismatch>>
searchVars == <<query, top_k, top_idx, results>>
threadVars == <<pcW, w_args, pcR, r_embs, r_top, r_pos, r_results, pre>>
chunkVars == <<text, chunk_size, chunk_overlap, pc, start, chunks, windows>>
embedVars == <<vocabulary, idf_values, initialized, built_from, e_texts, e_out>>
appVars == <<app_initialized, dir_chunks, req_pc, ingestions>>
serviceVars == <<embedVars, appVars>>
vars == <<storeVars, callVars, searchVars, threadVars, chunkVars, serviceVars>>

----------------------------------------------------------------------------
(* Bounds and input pools *)

\* the longest list of documents or embeddings handed to add_documents or
\* found in a snapshot file
MaxDocs == 2

RECURSIVE SeqsUpTo(_, _)
SeqsUpTo(S, n) ==
    IF n = 0 THEN {<<>>}
    ELSE LET shorter == SeqsUpTo(S, n - 1)
         IN  shorter \cup {Append(s, x) : s \in {t \in shorter : Len(t) = n - 1}, x \in S}

Min(a, b) == IF a < b THEN a ELSE b
Max(a, b) == IF a > b THEN a ELSE b

----------------------------------------------------------------------------
(* Documents *)

\* Document(content, source, chunk_id, metadata): the dataclass, as the tuple
\* of its fields in declaration order
Document(content, source, chunk_id, metadata) ==
    <<content, source, chunk_id, metadata>>

DocA == Document("Insurance law content", "test1.txt", "chunk1", "meta")
DocB == Document("Vehicle permit regulations", "test2.txt", "chunk2", "meta")
DocPool == {DocA, DocB}

\* the dict _save_data writes for one document
DocToJsonSwapped(doc) ==
    [content |-> doc[1], source |-> doc[3], chunk_id |-> doc[2], metadata |-> doc[4]]

DocToJson(doc) ==
    [content |-> doc[1], source |-> doc[2], chunk_id |-> doc[3], metadata |-> doc[4]]

\* the Document _load_existing_data rebuilds from one record of the file
DocFromJson(doc_data) ==
    Document(doc_data.content, doc_data.source, doc_data.chunk_id, doc_data.metadata)

----------------------------------------------------------------------------
(* Vectors *)

\* Vector components are integers. np.float32 keeps a 24-bit significand and
\* rounds what does not fit; the model scales this down: magnitudes up to 2
\* are exact, a larger one is rounded to the even number toward zero.
Float32(x) == IF x > 2 \/ x < -2 THEN 2 * (x \div 2) ELSE x

\* emb.astype(np.float32), np.array(emb, dtype=np.float32)
astype_float32(v) == [i \in 1..Len(v) |-> Float32(v[i])]

\* An argument of add_documents: an ndarray (ok) holding v, or an object
\* that has no working astype (a plain list, an array of strings)
Emb(v) == [ok |-> TRUE, v |-> v]
Malformed == [ok |-> FALSE, v |-> <<>>]

\* The vector each document of the pool comes with: the caller embeds the
\* document's content (flask_app.py line 57), so a document determines it
VecOf(doc) == IF doc = DocA THEN <<1, 0>> ELSE <<0, 3>>

DocSeqs == SeqsUpTo(DocPool, MaxDocs)
EmbsOf(ds) == [i \in 1..Len(ds) |-> Emb(VecOf(ds[i]))]
VecsOf(ds) == [i \in 1..Len(ds) |-> VecOf(ds[i])]
DropLast(s) == SubSeq(s, 1, Len(s) - 1)

\* The calls add_documents(ds, es) of the model: the documents with their
\* vectors, the same with one vector malformed, and the same with the last
\* document or the last vector missing
AddCalls ==
    {<<ds, EmbsOf(ds)>> : ds \in DocSeqs}
    \cup UNION {{<<ds, [EmbsOf(ds) EXCEPT ![j] = Malformed]>> : j \in 1..Len(ds)} :
                    ds \in DocSeqs}
    \cup {<<ds, DropLast(EmbsOf(ds))>> : ds \in DocSeqs \ {<<>>}}
    \cup {<<DropLast(ds), EmbsOf(ds)>> : ds \in DocSeqs \ {<<>>}}

----------------------------------------------------------------------------
(* The snapshot file data/processed_documents.json *)

NoFile == [kind |-> "none", documents |-> <<>>, embeddings_kind |-> "missing",
           embeddings |-> <<>>]
\* a file that is not a complete JSON text: empty, or a strict prefix of one
Torn == [kind |-> "torn", documents |-> <<>>, embeddings_kind |-> "missing",
         embeddings |-> <<>>]
\* {"documents": [...], "embeddings": [...]}; embeddings_kind "missing" is a
\* file without the key, "unreadable" a value that is no list of number lists
JsonFile(doc_records, embeddings_kind, embedding_lists) ==
    [kind |-> "json", documents |-> doc_records,
     embeddings_kind |-> embeddings_kind, embeddings |-> embedding_lists]

\* The snapshot files a store can be constructed over: none, a torn one, the
\* records of some documents with their vectors, and the same with the last
\* record or the last vector missing, or with no readable embeddings at all
DocsToJson(ds) == [i \in 1..Len(ds) |-> DocToJson(ds[i])]
InitFiles ==
    {NoFile, Torn}
    \cup {JsonFile(DocsToJson(ds), "list", VecsOf(ds)) : ds \in DocSeqs}
    \cup {JsonFile(DocsToJson(ds), "list", DropLast(VecsOf(ds))) : ds \in DocSeqs \ {<<>>}}
    \cup {JsonFile(DocsToJson(DropLast(ds)), "list", VecsOf(ds)) : ds \in DocSeqs \ {<<>>}}
    \cup {JsonFile(DocsToJson(ds), k, <<>>) :
              ds \in DocSeqs \ {<<>>}, k \in {"missing", "unreadable"}}

Empty == <<<<>>, <<>>>>

\* _load_existing_data, as <<self.documents, self.embeddings>> after it
load_truncating(file) ==
    IF file.kind # "json" \/ file.embeddings_kind = "unreadable" THEN Empty
    ELSE LET n == Min(Len(file.documents), Len(file.embeddings))
         IN  <<[i \in 1..n |-> DocFromJson(file.documents[i])],
               [i \in 1..n |-> astype_float32(file.embeddings[i])]>>

load_existing_data(file) ==
    IF file.kind = "none" THEN Empty                     \* line 28: no file
    ELSE IF file.kind = "torn" THEN Empty                \* json.load raises, line 53
    ELSE LET docs == [i \in 1..Len(file.documents) |-> DocFromJson(file.documents[i])]
             embeddings_data ==                          \* data.get('embeddings', [])
                 IF file.embeddings_kind = "missing" THEN <<>> ELSE file.embeddings
         IN  IF file.embeddings_kind = "unreadable" THEN Empty   \* raises, line 53
             ELSE IF embeddings_data # <<>> /\ Len(embeddings_data) = Len(docs)
                  THEN <<docs, [i \in 1..Len(embeddings_data) |->
                                   astype_float32(embeddings_data[i])]>>
                  ELSE Empty                             \* lines 49-51

\* the file _save_data leaves behind. io is what the disk does:
\*   "ok"          the write completes
\*   "open_fails"  open(..., 'w') raises (permission, missing directory)
\*   "write_fails" json.dump raises after the file was truncated
\*   "crash"       the process dies after the file was truncated
IoOutcomes == {"ok", "open_fails", "write_fails", "crash"}

save_data_without_embeddings(docs, embs, io, old_file) ==
    IF io = "open_fails" THEN old_file
    ELSE IF io \in {"write_fails", "crash"} THEN Torn
    ELSE JsonFile(DocsToJson(docs), "missing", <<>>)

save_data_removing_old(docs, embs, io, old_file) ==
    IF io = "open_fails" THEN NoFile
    ELSE IF io \in {"write_fails", "crash"} THEN Torn
    ELSE JsonFile(DocsToJson(docs), "list", embs)

save_data_file(docs, embs, io, old_file) ==
    IF io = "open_fails" THEN old_file
    ELSE IF io \in {"write_fails", "crash"} THEN Torn
    ELSE JsonFile(DocsToJson(docs), "list", embs)

----------------------------------------------------------------------------
(* The store's operations, each one whole call *)

\* SimpleVectorStore() in a new process over the file as it is on disk. It is
\* also what follows a crash.
Restart ==
    /\ documents' = load_existing_data(metadata_file)[1]
    /\ embeddings' = load_existing_data(metadata_file)[2]
    /\ alive' = TRUE
    /\ op' = "load"
    /\ ret' = "ok"
    /\ log' = "none"
    /\ arg_mismatch' = FALSE
    /\ UNCHANGED <<metadata_file, searchVars, threadVars, chunkVars, serviceVars>>

lengths_differ_unchecked(ds, es) == FALSE

\* line 66
lengths_differ(ds, es) == Len(ds) # Len(es)

\* add_documents(ds, es) with the disk behaving as io
add_documents(ds, es, io) ==
    /\ alive
    /\ op' = "add"
    /\ arg_mismatch' = (Len(ds) # Len(es))
    /\ IF lengths_differ(ds, es)
       THEN \* line 67
            /\ ret' = "ValueError"
            /\ log' = "none"
            /\ UNCHANGED <<documents, embeddings, metadata_file, alive>>
       ELSE IF \E i \in 1..Len(es) : ~es[i].ok
       THEN \* line 71 assigns, line 72 raises, lines 79-81 re-raise
            /\ documents' = ds
            /\ ret' = "raised"
            /\ log' = "none"
            /\ UNCHANGED <<embeddings, metadata_file, alive>>
       ELSE \* lines 71-77
            LET embs == [i \in 1..Len(es) |-> astype_float32(es[i].v)]
            IN  /\ metadata_file' = save_data_file(ds, embs, io, metadata_file)
                /\ IF io = "crash"
                   THEN \* the process is gone, and its memory with it
                        /\ alive' = FALSE
                        /\ documents' = <<>>
                        /\ embeddings' = <<>>
                        /\ ret' = "none"
                        /\ log' = "none"
                   ELSE \* _save_data logs its exception and returns, lines 154-155
                        /\ alive' = TRUE
                        /\ documents' = ds
                        /\ embeddings' = embs
                        /\ ret' = "ok"
                        /\ log' = IF io = "ok" THEN "saved" ELSE "save_failed"
    /\ UNCHANGED <<searchVars, threadVars, chunkVars, serviceVars>>

\* what the disk can do during add_documents(ds, es): it is only asked when
\* the call gets as far as _save_data
IoFor(ds, es) ==
    IF Len(ds) = Len(es) /\ \A i \in 1..Len(es) : es[i].ok THEN IoOutcomes ELSE {"ok"}

----------------------------------------------------------------------------
(* search *)

Dot(a, b) == IF Len(a) = 0 THEN 0 ELSE LET S[i \in 0..Len(a)] ==
                 IF i = 0 THEN 0 ELSE S[i - 1] + a[i] * b[i] IN S[Len(a)]
NormSq(a) == Dot(a, a)
Sign(x) == IF x > 0 THEN 1 ELSE IF x < 0 THEN -1 ELSE 0

\* The similarity of lines 109-114 is dot(q/|q|, d/|d|), or 0.0 when |d| = 0;
\* q is left as it is when |q| = 0 (line 102). It is kept exact, as the pair
\* num/sqrt(den) with the common factor 1/|q| left out: num = dot(q, d),
\* den = |d|^2.
similarity_unnormalized(q, d) == [num |-> Dot(q, d), den |-> 1]

similarity(q, d) ==
    IF NormSq(d) > 0 THEN [num |-> Dot(q, d), den |-> NormSq(d)]
    ELSE [num |-> 0, den |-> 1]

\* x.num/sqrt(x.den) compared with y.num/sqrt(y.den)
SimKey(x, y) == Sign(x.num) * x.num * x.num * y.den
SimGreater(x, y) == SimKey(x, y) > SimKey(y, x)
SimEqual(x, y) == SimKey(x, y) = SimKey(y, x)

\* list.sort(key=lambda x: x[0], reverse=True), line 118: a stable sort, so
\* each element goes behind the ones that are not smaller
insert_ties_first(sorted, e) ==
    LET before == {i \in 1..Len(sorted) : SimGreater(sorted[i][1], e[1])}
        n == Cardinality(before)
    IN  SubSeq(sorted, 1, n) \o <<e>> \o SubSeq(sorted, n + 1, Len(sorted))

insert_desc(sorted, e) ==
    LET before == {i \in 1..Len(sorted) : ~SimGreater(e[1], sorted[i][1])}
        n == Cardinality(before)
    IN  SubSeq(sorted, 1, n) \o <<e>> \o SubSeq(sorted, n + 1, Len(sorted))

RECURSIVE sort_desc(_)
sort_desc(sims) ==
    IF sims = <<>> THEN <<>>
    ELSE insert_desc(sort_desc(SubSeq(sims, 1, Len(sims) - 1)), sims[Len(sims)])

\* similarities[:top_k], line 122: Python's slice, a negative stop counts
\* from the end
slice_to(s, k) ==
    SubSeq(s, 1, IF k < 0 THEN Max(Len(s) + k, 0) ELSE Min(k, Len(s)))

\* np.dot of lines 112 raises on vectors of different lengths
dot_raises(q, embs) ==
    \E i \in 1..Len(embs) : NormSq(embs[i]) > 0 /\ Len(embs[i]) # Len(q)

RECURSIVE collect_strict(_, _)
collect_strict(docs, idx) ==
    IF idx = <<>> THEN <<>>
    ELSE (IF idx[1] < Len(docs) THEN <<docs[idx[1]]>> ELSE <<>>)
         \o collect_strict(docs, Tail(idx))

\* lines 121-124: the documents of the index list idx, skipping the indices
\* beyond the documents
RECURSIVE collect(_, _)
collect(docs, idx) ==
    IF idx = <<>> THEN <<>>
    ELSE (IF idx[1] <= Len(docs) THEN <<docs[idx[1]]>> ELSE <<>>)
         \o collect(docs, Tail(idx))

\* search(query_embedding, top_k) on the store <<docs, embs>>:
\* idx is the index column of similarities[:top_k], docs what is returned
search_result(docs, embs, query_embedding, k) ==
    IF embs = <<>> THEN [idx |-> <<>>, docs |-> <<>>]              \* lines 94-96
    ELSE IF dot_raises(query_embedding, embs)
    THEN [idx |-> <<>>, docs |-> <<>>]                             \* lines 129-131
    ELSE LET q == astype_float32(query_embedding)
             similarities == [i \in 1..Len(embs) |-> <<similarity(q, embs[i]), i>>]
             top == slice_to(sort_desc(similarities), k)
             idx == [p \in 1..Len(top) |-> top[p][2]]
         IN  [idx |-> idx, docs |-> collect(docs, idx)]

search(query_embedding, k) ==
    /\ alive
    /\ op' = "search"
    /\ ret' = "ok"
    /\ query' = query_embedding
    /\ top_k' = k
    /\ LET found == search_result(documents, embeddings, query_embedding, k)
       IN  /\ top_idx' = found.idx
           /\ results' = found.docs
    /\ UNCHANGED <<storeVars, log, arg_mismatch, threadVars, chunkVars, serviceVars>>

----------------------------------------------------------------------------
(* The store over its life: constructed over a snapshot file, then any
   sequence of add_documents, search and restarts *)

NoCall == /\ op = "load" /\ ret = "ok" /\ log = "none" /\ arg_mismatch = FALSE
NoSearch == /\ query = <<>> /\ top_k = 0 /\ top_idx = <<>> /\ results = <<>>
NoThreads ==
    /\ pcW = "idle" /\ w_args = Empty /\ pcR = "idle" /\ r_embs = <<>>
    /\ r_top = <<>> /\ r_pos = 0 /\ r_results = <<>> /\ pre = Empty
NoChunking ==
    /\ text = <<>> /\ chunk_size = 0 /\ chunk_overlap = 0 /\ pc = "idle"
    /\ start = 0 /\ chunks = <<>> /\ windows = <<>>
NoEmbedder ==
    /\ vocabulary = <<>> /\ idf_values = <<>> /\ initialized = FALSE
    /\ built_from = <<>> /\ e_texts = <<>> /\ e_out = <<>>
NoRequests == req_pc = <<>> /\ ingestions = 0
NoApp == /\ app_initialized = FALSE /\ dir_chunks = <<>> /\ NoRequests
NoService == NoEmbedder /\ NoApp

\* SimpleVectorStore() over any snapshot file
Init ==
    /\ metadata_file \in InitFiles
    /\ documents = load_existing_data(metadata_file)[1]
    /\ embeddings = load_existing_data(metadata_file)[2]
    /\ alive = TRUE
    /\ NoCall /\ NoSearch /\ NoThreads /\ NoService /\ NoChunking

Next ==
    \/ \E call \in AddCalls : \E io \in IoFor(call[1], call[2]) :
           add_documents(call[1], call[2], io)
    \/ Restart

Spec == Init /\ [][Next]_vars

----------------------------------------------------------------------------
(* Claims about the store over its life, checked under Spec *)

\* the snapshot file a complete save of the store in memory leaves behind
SnapshotOfMemory == JsonFile(DocsToJson(documents), "list", embeddings)

\* embeddings[i] is the float32 form of the vector documents[i] came with
IndexAligned ==
    /\ Len(documents) = Len(embeddings)
    /\ \A i \in 1..Len(documents) :
           embeddings[i] = astype_float32(VecOf(documents[i]))

\* C1: between calls (after construction or load, after any add_documents,
\* returned or raised, after any search) the store has as many embeddings as
\* documents, and embeddings[i] is the vector that came with documents[i].
C1_AlignedBetweenCalls == alive => IndexAligned

\* C2: add_documents with len(documents) # len(embeddings) raises and leaves
\* the documents, the embeddings and the snapshot file as they were.
C2_MismatchRejected ==
    [][(op' = "add" /\ arg_mismatch')
          => /\ ret' = "ValueError"
             /\ UNCHANGED <<documents, embeddings, metadata_file>>]_vars

\* C2 witness: a mismatched call was rejected by a store that holds documents
\* and has a snapshot on disk
C2_Witness ==
    /\ op = "add" /\ arg_mismatch /\ ret = "ValueError"
    /\ Len(documents) = 2 /\ metadata_file.kind = "json"

\* the file holds two lists of different lengths, or no readable embeddings
CorruptSnapshot(file) ==
    /\ file.kind = "json"
    /\ \/ file.embeddings_kind # "list"
       \/ Len(file.documents) # Len(file.embeddings)

\* C5: a store constructed over a snapshot whose two lists differ in length,
\* or whose embeddings are missing or unreadable, is empty: the constructor
\* does not raise and keeps no truncated subset.
C5_CorruptSnapshotLoadsEmpty ==
    (op = "load" /\ CorruptSnapshot(metadata_file))
        => /\ ret = "ok"
           /\ documents = <<>>
           /\ embeddings = <<>>

\* C5 witness: a store constructed over two document records and one vector
C5_Witness ==
    /\ op = "load" /\ metadata_file.kind = "json"
    /\ metadata_file.embeddings_kind = "list"
    /\ Len(metadata_file.documents) = 2
    /\ Len(metadata_file.embeddings) = 1
    /\ documents = <<>>

\* C6: add_documents, a completed save and a reload by a fresh store give the
\* documents and embeddings that were added, in the same order (the
\* embeddings as float32, which is how add_documents installs them).
C6_RoundTrip ==
    [][(op = "add" /\ ret = "ok" /\ log = "saved" /\ op' = "load")
          => /\ documents' = documents
             /\ embeddings' = embeddings
             /\ \A i \in 1..Len(documents') :
                    embeddings'[i] = astype_float32(VecOf(documents'[i]))]_vars

\* C6 witness: a store reloaded from a file that add_documents wrote (the
\* rounded vector <<0, 2>> is in no file the model starts with)
C6_Witness ==
    /\ op = "load"
    /\ documents = <<DocB, DocA>>
    /\ embeddings = <<<<0, 2>>, <<1, 0>>>>
    /\ metadata_file.embeddings = <<<<0, 2>>, <<1, 0>>>>

C8_SaveIsAtomic ==
    [][op' = "add"
          => \/ metadata_file' = metadata_file
             \/ /\ metadata_file'.kind = "json"
                /\ ~CorruptSnapshot(metadata_file')]_vars

----------------------------------------------------------------------------
(* add_documents called with vectors of any length *)

\* self.embedding_dim, line 14: 384 in the code, 2 in the model, whose
\* document vectors are pairs
embedding_dim == 2

\* the documents with their vectors, one of them of another length
WrongLengthCalls ==
    UNION {{<<ds, [EmbsOf(ds) EXCEPT ![j] = Emb(<<1>>)]>> : j \in 1..Len(ds)} :
               ds \in DocSeqs}

NextAnyLength ==
    \/ Next
    \/ \E call \in WrongLengthCalls : \E io \in IoFor(call[1], call[2]) :
           add_documents(call[1], call[2], io)

SpecAnyLength == Init /\ [][NextAnyLength]_vars

\* an embedding that is malformed or not of the store's dimension
BadEmbedding(e) == ~e.ok \/ Len(e.v) # embedding_dim

\* C13: add_documents with an embedding that is malformed or not of length
\* embedding_dim fails and leaves the documents, the embeddings and the
\* snapshot file as they were.
C13_BadEmbeddingRejected ==
    [][\A call \in AddCalls \cup WrongLengthCalls :
           \A io \in IoFor(call[1], call[2]) :
               (/\ \E i \in 1..Len(call[2]) : BadEmbedding(call[2][i])
                /\ add_documents(call[1], call[2], io))
                   => /\ ret' \in {"ValueError", "raised"}
                      /\ UNCHANGED <<documents, embeddings, metadata_file>>]_vars

----------------------------------------------------------------------------
(* search as a function of the store and its arguments: the store holds any
   vectors, the documents are numbered by their place *)

\* the longest store searched
MaxStored == 3

\* the i-th chunk of a source; its chunk_id is its place
SearchDoc(i) == Document("chunk", "corpus.txt", i, "meta")

\* stored vectors: zero, two parallel ones, an oblique and an opposite one,
\* and one of another dimension
SearchVecs == {<<0, 0>>, <<1, 0>>, <<2, 0>>, <<1, 1>>, <<-1, 0>>, <<1>>}
SearchQueries == {<<0, 0>>, <<1, 0>>, <<1, 1>>, <<1>>}
SearchTopKs == (-1)..(MaxStored + 1)

\* a store with any vectors; it holds a document for each of them, or, as
\* after an add_documents that raised at line 72, one document less
InitSearch ==
    /\ embeddings \in SeqsUpTo(SearchVecs, MaxStored)
    /\ \E n \in {Len(embeddings), Max(Len(embeddings) - 1, 0)} :
           documents = [i \in 1..n |-> SearchDoc(i)]
    /\ metadata_file = NoFile
    /\ alive = TRUE
    /\ NoCall /\ NoSearch /\ NoThreads /\ NoService /\ NoChunking

NextSearch == \E q \in SearchQueries, k \in SearchTopKs : search(q, k)

SpecSearch == InitSearch /\ [][NextSearch]_vars

\* the search of the last call did not end in its except branch
SearchRan == op = "search" /\ ~dot_raises(query, embeddings)

\* Cosine similarity as the claims define it: dot(q, d) / (|q| |d|), and 0
\* when q or d has norm 0. Exact, as num/sqrt(den) with 1/|q| left out.
Cosine(q, d) ==
    IF NormSq(q) = 0 \/ NormSq(d) = 0 THEN [num |-> 0, den |-> 1]
    ELSE [num |-> Dot(q, d), den |-> NormSq(d)]

\* the place in the store of the p-th returned document
Place(p) == results[p][3]
CosineAt(i) == Cosine(query, embeddings[i])

\* C9: the documents come back in non-increasing order of cosine similarity,
\* equal similarities in insertion order; for a zero-norm query (and
\* top_k >= 0) they are the first min(top_k, n) documents in insertion order;
\* a stored zero-norm vector scores 0 and does not fail the search.
C9_RankedStable ==
    (SearchRan /\ Len(documents) = Len(embeddings))
        => /\ \A p \in 1..(Len(results) - 1) :
                  /\ ~SimGreater(CosineAt(Place(p + 1)), CosineAt(Place(p)))
                  /\ SimEqual(CosineAt(Place(p + 1)), CosineAt(Place(p)))
                         => Place(p) < Place(p + 1)
           /\ (NormSq(query) = 0 /\ top_k >= 0)
                  => results = SubSeq(documents, 1, Min(top_k, Len(documents)))
           /\ (top_k > 0 /\ \E i \in 1..Len(embeddings) : NormSq(embeddings[i]) = 0)
                  => results # <<>>

\* C9 witness: a tie in insertion order ahead of a zero-norm vector, which is
\* ahead of the opposite vector
C9_Witness ==
    /\ SearchRan /\ query = <<1, 0>> /\ top_k = 3
    /\ embeddings = <<<<0, 0>>, <<2, 0>>, <<1, 0>>>>
    /\ results = <<SearchDoc(2), SearchDoc(3), SearchDoc(1)>>

\* C10: on a store of n index-aligned chunks whose vectors have the query's
\* dimension, search with top_k >= 0 returns exactly min(top_k, n) documents,
\* each a different document of the store; all n for top_k > n, none (and no
\* error) for n = 0.
C10_ReturnsMinTopKN ==
    (/\ op = "search"
     /\ Len(documents) = Len(embeddings)
     /\ \A i \in 1..Len(embeddings) : Len(embeddings[i]) = Len(query)
     /\ top_k >= 0)
        => /\ ret = "ok"
           /\ Len(results) = Min(top_k, Len(documents))
           /\ \A p \in 1..Len(results) : \E i \in 1..Len(documents) :
                  results[p] = documents[i]
           /\ \A p1, p2 \in 1..Len(results) : p1 # p2 => results[p1] # results[p2]

\* C10 witness: top_k beyond the store's size returned the whole store
C10_Witness ==
    /\ op = "search" /\ top_k = 3
    /\ Len(documents) = 2 /\ Len(embeddings) = 2
    /\ \A i \in 1..2 : Len(embeddings[i]) = Len(query)
    /\ Len(results) = 2

\* C11: for every integer top_k, zero and negative ones included, search
\* returns at most top_k documents, so none when top_k <= 0.
C11_AtMostTopK == op = "search" => Len(results) <= Max(top_k, 0)

\* d is a positive multiple of q: it has the cosine similarity 1 with q
PositiveMultiple(d, q) ==
    /\ Len(d) = Len(q)
    /\ Dot(q, d) > 0
    /\ Dot(q, d) * Dot(q, d) = NormSq(q) * NormSq(d)

----------------------------------------------------------------------------
(* One add_documents and one search in two threads of one process, line by
   line. A read or a rebinding of self.documents or self.embeddings is one
   step; add_documents binds new list objects and never changes a list in
   place, so the list a thread has read stays as it was. *)

ThreadQueries == {<<1, 0>>, <<0, 1>>}
ThreadTopKs == {1, 2}
StoreOf(ds) == <<ds, [i \in 1..Len(ds) |-> astype_float32(VecOf(ds[i]))]>>

InitThreads ==
    /\ pre \in {StoreOf(ds) : ds \in DocSeqs}
    /\ documents = pre[1]
    /\ embeddings = pre[2]
    /\ metadata_file = JsonFile(DocsToJson(pre[1]), "list", pre[2])
    /\ alive = TRUE
    /\ NoCall
    /\ query \in ThreadQueries
    /\ top_k \in ThreadTopKs
    /\ top_idx = <<>> /\ results = <<>>
    /\ pcW = "l66"
    /\ w_args \in {<<ds, EmbsOf(ds)>> : ds \in DocSeqs}
    /\ pcR = "l94"
    /\ r_embs = <<>> /\ r_top = <<>> /\ r_pos = 0 /\ r_results = <<>>
    /\ NoChunking /\ NoService

readerVars == <<pcR, r_embs, r_top, r_pos, r_results, query, top_k, top_idx, results>>
writerVars == <<pcW, w_args, documents, embeddings, metadata_file, op, ret, log,
                arg_mismatch>>

\* the writer, add_documents(w_args[1], w_args[2])
W66 ==
    /\ pcW = "l66"
    /\ op' = "add"
    /\ arg_mismatch' = (Len(w_args[1]) # Len(w_args[2]))
    /\ IF lengths_differ(w_args[1], w_args[2])
       THEN pcW' = "done" /\ ret' = "ValueError"
       ELSE pcW' = "l71" /\ ret' = "none"
    /\ UNCHANGED <<w_args, documents, embeddings, metadata_file, log>>
    /\ UNCHANGED <<readerVars, alive, pre, chunkVars, serviceVars>>

W71 ==
    /\ pcW = "l71"
    /\ documents' = w_args[1]
    /\ pcW' = "l72"
    /\ UNCHANGED <<w_args, embeddings, metadata_file, op, ret, log, arg_mismatch>>
    /\ UNCHANGED <<readerVars, alive, pre, chunkVars, serviceVars>>

W72 ==
    /\ pcW = "l72"
    /\ IF \E i \in 1..Len(w_args[2]) : ~w_args[2][i].ok
       THEN /\ pcW' = "done" /\ ret' = "raised"
            /\ UNCHANGED embeddings
       ELSE /\ pcW' = "l75" /\ ret' = "none"
            /\ embeddings' = [i \in 1..Len(w_args[2]) |-> astype_float32(w_args[2][i].v)]
    /\ UNCHANGED <<w_args, documents, metadata_file, op, log, arg_mismatch>>
    /\ UNCHANGED <<readerVars, alive, pre, chunkVars, serviceVars>>

W75 ==
    /\ pcW = "l75"
    /\ metadata_file' = save_data_file(documents, embeddings, "ok", metadata_file)
    /\ log' = "saved"
    /\ ret' = "ok"
    /\ pcW' = "done"
    /\ UNCHANGED <<w_args, documents, embeddings, op, arg_mismatch>>
    /\ UNCHANGED <<readerVars, alive, pre, chunkVars, serviceVars>>

\* the reader, search(query, top_k)
R94 ==
    /\ pcR = "l94"
    /\ IF embeddings = <<>>
       THEN pcR' = "done" /\ results' = <<>>
       ELSE pcR' = "l107" /\ UNCHANGED results
    /\ UNCHANGED <<r_embs, r_top, r_pos, r_results, query, top_k, top_idx>>
    /\ UNCHANGED <<writerVars, alive, pre, chunkVars, serviceVars>>

\* lines 99-118 and the slice of line 122 work on the list read at line 107
R107 ==
    /\ pcR = "l107"
    /\ r_embs' = embeddings
    /\ IF dot_raises(query, embeddings)
       THEN /\ pcR' = "done" /\ results' = <<>>
            /\ UNCHANGED <<r_top, r_pos, top_idx>>
       ELSE LET q == astype_float32(query)
                similarities == [i \in 1..Len(embeddings) |->
                                    <<similarity(q, embeddings[i]), i>>]
                top == slice_to(sort_desc(similarities), top_k)
            IN  /\ r_top' = top
                /\ top_idx' = [p \in 1..Len(top) |-> top[p][2]]
                /\ r_pos' = 1
                /\ pcR' = "l122"
                /\ UNCHANGED results
    /\ UNCHANGED <<r_results, query, top_k>>
    /\ UNCHANGED <<writerVars, alive, pre, chunkVars, serviceVars>>

\* the loop head of line 122 and the test of line 123, which reads
\* len(self.documents)
R122 ==
    /\ pcR = "l122"
    /\ IF r_pos > Len(r_top)
       THEN /\ pcR' = "done" /\ results' = r_results         \* line 127
            /\ UNCHANGED r_pos
       ELSE /\ UNCHANGED results
            /\ IF r_top[r_pos][2] <= Len(documents)
               THEN pcR' = "l124" /\ UNCHANGED r_pos
               ELSE pcR' = "l122" /\ r_pos' = r_pos + 1
    /\ UNCHANGED <<r_embs, r_top, r_results, query, top_k, top_idx>>
    /\ UNCHANGED <<writerVars, alive, pre, chunkVars, serviceVars>>

\* line 124 reads self.documents again; an index beyond it raises IndexError,
\* which lines 129-131 turn into an empty result
R124 ==
    /\ pcR = "l124"
    /\ IF r_top[r_pos][2] <= Len(documents)
       THEN /\ r_results' = Append(r_results, documents[r_top[r_pos][2]])
            /\ r_pos' = r_pos + 1
            /\ pcR' = "l122"
            /\ UNCHANGED results
       ELSE /\ pcR' = "done" /\ results' = <<>>
            /\ UNCHANGED <<r_results, r_pos>>
    /\ UNCHANGED <<r_embs, r_top, query, top_k, top_idx>>
    /\ UNCHANGED <<writerVars, alive, pre, chunkVars, serviceVars>>

NextThreads == W66 \/ W71 \/ W72 \/ W75 \/ R94 \/ R107 \/ R122 \/ R124

SpecThreads == InitThreads /\ [][NextThreads]_vars

\* the snapshot the writer installs
post == StoreOf(w_args[1])

\* C4: a search that runs while add_documents runs computes its result from
\* one snapshot: what it returns is what search returns on the snapshot before
\* the replace or on the snapshot after it, never a mix of the two.
C4_SearchSeesOneSnapshot ==
    pcR = "done"
        => \/ results = search_result(pre[1], pre[2], query, top_k).docs
           \/ results = search_result(post[1], post[2], query, top_k).docs

----------------------------------------------------------------------------
(* DocumentProcessor._chunk_text. A text is a sequence of characters; the
   positions start, end, sentence_end and space_pos are the code's 0-based
   ones, so position i is text[i + 1]. *)

\* the longest short text
MaxTextLen == 4
\* the iterations of the while loop the model follows
MaxIterations == 6
\* "within the last 100 characters", line 275
SentenceWindow == 100

Chars == {"a", " ", "."}
Fill(n) == [i \in 1..n |-> "a"]

\* Short texts of any characters, and long texts, a run of letters between a
\* short head and a short tail
ShortTexts == SeqsUpTo(Chars, MaxTextLen)
LongTexts ==
    {head \o Fill(n) \o tail :
        head \in {<<>>, <<"a", " ">>, <<"a", ".">>, <<" ", ".">>},
        n \in {120, 230},
        tail \in {<<>>, <<" ", "a">>, <<".", "a">>}}

\* chunk sizes below and above the sentence window, each with its overlaps
\* 0 <= chunk_overlap < chunk_size
ShortConfigs == {<<cs, ov>> \in (1..3) \X (0..2) : ov < cs}
LongConfigs == {<<100, 0>>, <<101, 1>>, <<110, 2>>, <<110, 20>>, <<110, 109>>}

\* a slice index as Python clamps it for a sequence of length n
SliceIndex(i, n) == IF i < 0 THEN Max(i + n, 0) ELSE Min(i, n)

\* str.rfind(ch, from, to): the highest position in text[from:to] holding ch,
\* or -1
rfind(t, ch, from, to) ==
    LET lo == SliceIndex(from, Len(t))
        hi == SliceIndex(to, Len(t))
        found == {i \in lo..(hi - 1) : t[i + 1] = ch}
    IN  IF found = {} THEN -1 ELSE CHOOSE i \in found : \A j \in found : j <= i

\* text[from:to]
slice(t, from, to) ==
    LET lo == SliceIndex(from, Len(t))
        hi == SliceIndex(to, Len(t))
    IN  IF lo >= hi THEN <<>> ELSE SubSeq(t, lo + 1, hi)

\* str.strip()
strip(t) ==
    LET kept == {i \in 1..Len(t) : t[i] # " "}
    IN  IF kept = {} THEN <<>>
        ELSE SubSeq(t, CHOOSE i \in kept : \A j \in kept : i <= j,
                       CHOOSE i \in kept : \A j \in kept : j <= i)

\* lines 269-281: the end of the chunk that begins at start
chunk_end_hard_cut(t, size, from) == from + size
chunk_end_overlong(t, size, from) == from + size + 1

chunk_end(t, size, from) ==
    LET end == from + size
    IN  IF end < Len(t)
        THEN LET sentence_end == rfind(t, ".", from, end)
             IN  IF sentence_end > from + size - SentenceWindow
                 THEN sentence_end + 1
                 ELSE LET space_pos == rfind(t, " ", from, end)
                      IN  IF space_pos > from THEN space_pos ELSE end
        ELSE end

InitChunk ==
    /\ \E cfg \in ShortConfigs :
           /\ chunk_size = cfg[1] /\ chunk_overlap = cfg[2]
           /\ text \in ShortTexts
    /\ pc = "call"
    /\ start = 0 /\ chunks = <<>> /\ windows = <<>>
    /\ metadata_file = NoFile /\ documents = <<>> /\ embeddings = <<>>
    /\ alive = TRUE
    /\ NoCall /\ NoSearch /\ NoThreads /\ NoService

InitChunkLong ==
    /\ \E cfg \in LongConfigs :
           /\ chunk_size = cfg[1] /\ chunk_overlap = cfg[2]
           /\ text \in LongTexts
    /\ pc = "call"
    /\ start = 0 /\ chunks = <<>> /\ windows = <<>>
    /\ metadata_file = NoFile /\ documents = <<>> /\ embeddings = <<>>
    /\ alive = TRUE
    /\ NoCall /\ NoSearch /\ NoThreads /\ NoService

\* lines 262-266
ChunkCall ==
    /\ pc = "call"
    /\ IF Len(text) <= chunk_size
       THEN pc' = "done" /\ chunks' = <<text>>
       ELSE pc' = "loop" /\ chunks' = <<>>
    /\ start' = 0
    /\ UNCHANGED <<text, chunk_size, chunk_overlap, windows>>
    /\ UNCHANGED <<storeVars, callVars, searchVars, threadVars, serviceVars>>

\* one iteration of the while loop, lines 268-290
ChunkStep ==
    /\ pc = "loop"
    /\ Len(windows) < MaxIterations
    /\ IF start < Len(text)
       THEN LET end == chunk_end(text, chunk_size, start)
                chunk == strip(slice(text, start, end))
            IN  /\ chunks' = IF chunk # <<>> THEN Append(chunks, chunk) ELSE chunks
                /\ windows' = Append(windows, <<start, end>>)
                /\ start' = end - chunk_overlap
                /\ pc' = IF end - chunk_overlap >= Len(text) THEN "done" ELSE "loop"
       ELSE /\ pc' = "done"
            /\ UNCHANGED <<start, chunks, windows>>
    /\ UNCHANGED <<text, chunk_size, chunk_overlap>>
    /\ UNCHANGED <<storeVars, callVars, searchVars, threadVars, serviceVars>>

NextChunk == ChunkCall \/ ChunkStep

SpecChunk == (InitChunk \/ InitChunkLong) /\ [][NextChunk]_vars

\* C3: with 0 <= chunk_overlap < chunk_size, start strictly increases on
\* every iteration of the loop, so the loop ends after finitely many chunks.
C3_StartIncreases ==
    [][(pc = "loop" /\ Len(windows') > Len(windows)) => start' > start]_vars

----------------------------------------------------------------------------
(* The constructor called with any chunk_size and chunk_overlap *)

\* configurations with chunk_overlap >= chunk_size
InvalidConfigs == {<<cs, ov>> \in (1..3) \X (1..4) : ov >= cs}

\* DocumentProcessor(chunk_size, chunk_overlap) stores its arguments as
\* they are, lines 25-26
InitChunkInvalid ==
    /\ \E cfg \in InvalidConfigs :
           /\ chunk_size = cfg[1] /\ chunk_overlap = cfg[2]
           /\ text \in ShortTexts
    /\ pc = "call"
    /\ start = 0 /\ chunks = <<>> /\ windows = <<>>
    /\ metadata_file = NoFile /\ documents = <<>> /\ embeddings = <<>>
    /\ alive = TRUE
    /\ NoCall /\ NoSearch /\ NoThreads /\ NoService

SpecChunkAny ==
    (InitChunk \/ InitChunkLong \/ InitChunkInvalid) /\ [][NextChunk]_vars

\* C14: a DocumentProcessor with chunk_overlap >= chunk_size is rejected by
\* the constructor, so no such configuration reaches the chunking loop.
C14_InvalidConfigRejected == pc = "loop" => chunk_overlap < chunk_size

\* C15: on a text longer than chunk_size, with chunk_overlap < chunk_size,
\* every chunk emitted at any iteration has at most chunk_size characters.
C15_ChunkWithinSize ==
    (Len(text) > chunk_size /\ chunk_overlap < chunk_size)
        => \A i \in 1..Len(chunks) : Len(chunks[i]) <= chunk_size

\* C15 witness: a text cut into a chunk of exactly chunk_size characters
\* and a shorter last one
C15_Witness ==
    /\ pc = "done" /\ Len(text) > chunk_size /\ chunk_overlap < chunk_size
    /\ Len(chunks) = 2
    /\ Len(chunks[1]) = chunk_size /\ Len(chunks[2]) < chunk_size

\* the characters of the window w of the text, without the whitespace at
\* its edges
WindowText(w) == strip(SubSeq(text, Max(w[1], 0) + 1, Min(w[2], Len(text))))

\* C16: when _chunk_text ends on a text longer than chunk_size, its windows
\* begin at 0, each next one begins at the previous end minus chunk_overlap,
\* which is neither negative nor beyond that end, and the last one ends at
\* or after the end of the text; so every position lies in a window, and
\* the chunks are the windows' characters without the whitespace at their
\* edges.
C16_WindowsCoverText ==
    (pc = "done" /\ Len(text) > chunk_size)
        => /\ windows # <<>>
           /\ windows[1][1] = 0
           /\ \A i \in 1..(Len(windows) - 1) :
                  /\ 0 <= windows[i + 1][1]
                  /\ windows[i + 1][1] = windows[i][2] - chunk_overlap
                  /\ windows[i + 1][1] <= windows[i][2]
           /\ windows[Len(windows)][2] >= Len(text)
           /\ \A p \in 0..(Len(text) - 1) :
                  \E i \in 1..Len(windows) : windows[i][1] <= p /\ p < windows[i][2]
           /\ chunks = SelectSeq([i \in 1..Len(windows) |-> WindowText(windows[i])],
                                 LAMBDA c : c # <<>>)

----------------------------------------------------------------------------
(* SimpleEmbeddingService (services/simple_embeddings.py). A text is the
   sequence of the words that stand between its spaces. A weight ln(x / y)
   is kept exact, as the pair of the integers x and y. *)

\* the longest text of a list, in words
MaxWords == 1
\* the longest list of texts handed to create_embeddings
MaxTexts == 3

\* the words of a text: one in lower case, one capitalised and followed by
\* a full stop
RawWords == {"a", "B."}
EmbedTexts == SeqsUpTo(RawWords, MaxWords)
TextLists == SeqsUpTo(EmbedTexts, MaxTexts)

\* self.embedding_dim, line 15: the dimension of the store's vectors
embedder_dim == embedding_dim

\* the token of a word: str.lower(), line 76, and the run of word
\* characters that re.findall(r'\b\w+\b', ...) finds in it, line 77
token(w) == IF w = "B." THEN "b" ELSE w

\* _tokenize
tokenize(t) == [i \in 1..Len(t) |-> token(t[i])]

\* lines 50-53
RECURSIVE all_words(_)
all_words(texts) ==
    IF texts = <<>> THEN <<>>
    ELSE tokenize(Head(texts)) \o all_words(Tail(texts))

Range(s) == {s[i] : i \in 1..Len(s)}

\* Counter(words)[w]
Count(words, w) == Cardinality({i \in 1..Len(words) : words[i] = w})
\* where the Counter met w first
FirstAt(words, w) ==
    CHOOSE i \in 1..Len(words) : words[i] = w /\ \A j \in 1..(i - 1) : words[j] # w

\* Counter.most_common(n), line 57: the words by falling count, equal counts
\* in the order the Counter met them. Position is the place of w in that
\* list, from 0.
Position(words, w) ==
    Cardinality({x \in Range(words) :
        \/ Count(words, x) > Count(words, w)
        \/ Count(words, x) = Count(words, w) /\ FirstAt(words, x) < FirstAt(words, w)})
most_common_all(words, n) == Range(words)
most_common(words, n) == {w \in Range(words) : Position(words, w) < n}

\* the 1000 of line 57, scaled down to the model's few words: 2
VocabularySize == 2

\* ln(x / y)
Ln(x, y) == [num |-> x, den |-> y]

\* word_doc_count[w] of lines 65-68: the texts that hold w
word_doc_count(texts, w) ==
    Cardinality({i \in 1..Len(texts) : w \in Range(tokenize(texts[i]))})

\* line 71, df being word_doc_count.get(word, 1)
idf_unsmoothed(doc_count, df) == Ln(doc_count, df)

idf(doc_count, df) == Ln(doc_count, df + 1)

\* _build_vocabulary(texts): self.vocabulary is bound to a new dict, the
\* entries of self.idf_values are assigned in the dict that is there
build_vocabulary(texts, old_idf_values) ==
    LET words == all_words(texts)
        kept == most_common(words, Min(VocabularySize, Cardinality(Range(words))))
        doc_count == Len(texts)
        get(w) == IF word_doc_count(texts, w) = 0 THEN 1
                  ELSE word_doc_count(texts, w)
    IN  [vocabulary |-> IF kept = {} THEN <<>>
                        ELSE [w \in kept |-> Position(words, w)],
         idf_values |-> IF kept \cup DOMAIN old_idf_values = {} THEN <<>>
                        ELSE [w \in kept \cup DOMAIN old_idf_values |->
                                 IF w \in kept THEN idf(doc_count, get(w))
                                 ELSE old_idf_values[w]]]

RECURSIVE Pow(_, _)
Pow(b, e) == IF e = 0 THEN 1 ELSE b * Pow(b, e - 1)

\* The sum over the words ws of count * ln(x / y) is ln of the product of
\* (x / y) ^ count: weigh gives the product of the x ^ count (part "num")
\* or of the y ^ count (part "den")
RECURSIVE weigh(_, _, _, _)
weigh(ws, words, idfs, part) ==
    IF ws = {} THEN 1
    ELSE LET w == CHOOSE x \in ws : TRUE
         IN  Pow(idfs[w][part], Count(words, w)) * weigh(ws \ {w}, words, idfs, part)

\* lines 82-93: the vector accumulated for the text. Component b is the
\* sum of tf * idf over the vocabulary words of the text whose index % dim
\* is b - 1; the common factor 1 / len(words) of tf is left out. Every
\* vocabulary word has its entry in idf_values.
accumulate(t, vocab, idfs) ==
    LET words == tokenize(t)
        known(b) == {w \in Range(words) \cap DOMAIN vocab :
                        vocab[w] % embedder_dim = b - 1}
    IN  [b \in 1..embedder_dim |->
            Ln(weigh(known(b), words, idfs, "num"),
               weigh(known(b), words, idfs, "den"))]

RECURSIVE product(_, _)
product(acc, part) ==
    IF acc = <<>> THEN 1 ELSE Head(acc)[part] * product(Tail(acc), part)

\* np.sum(embedding) > 0, line 96
sum_positive(acc) == product(acc, "num") > product(acc, "den")

\* embedding / np.linalg.norm(embedding), line 98: the unit vector along
\* acc, which no longer depends on the factor 1 / len(words)
Normalized(acc) == [kind |-> "normalized", v |-> acc]

\* lines 101-102: a unit vector drawn at random; np.random is not seeded
RandomUnitVectors == {<<1, 0>>, <<0, -1>>}
Fallback(draw) == [kind |-> "random", v |-> draw]

\* _text_to_embedding(text), draw being what np.random gives when asked
text_to_embedding(t, vocab, idfs, draw) ==
    LET acc == accumulate(t, vocab, idfs)
    IN  IF sum_positive(acc) THEN Normalized(acc) ELSE Fallback(draw)

\* the embedding service as it stands
Service ==
    [vocabulary |-> vocabulary, idf_values |-> idf_values,
     initialized |-> initialized, built_from |-> built_from]

\* create_embeddings(texts) on the service svc up to line 38: the service
\* with its vocabulary built, if it had none
ensure_vocabulary(svc, texts) ==
    IF DOMAIN svc.vocabulary = {}                                \* line 37
    THEN LET built == build_vocabulary(texts, svc.idf_values)
         IN  [vocabulary |-> built.vocabulary, idf_values |-> built.idf_values,
              initialized |-> TRUE, built_from |-> texts]
    ELSE [svc EXCEPT !.initialized = TRUE]

embed_texts_with_words(svc, texts, draws) ==
    LET with_words == SelectSeq([i \in 1..Len(texts) |-> i], LAMBDA i : texts[i] # <<>>)
    IN  [j \in 1..Len(with_words) |->
            text_to_embedding(texts[with_words[j]], svc.vocabulary, svc.idf_values,
                              draws[with_words[j]])]

\* lines 40-46: the list returned. draws[i] is what np.random gives for
\* texts[i], if it is asked
embed_texts(svc, texts, draws) ==
    [i \in 1..Len(texts) |->
        text_to_embedding(texts[i], svc.vocabulary, svc.idf_values, draws[i])]

\* the texts for which np.random is asked
falls_back(svc, texts) ==
    {i \in 1..Len(texts) :
        ~sum_positive(accumulate(texts[i], svc.vocabulary, svc.idf_values))}
Draws(svc, texts) == [falls_back(svc, texts) -> RandomUnitVectors]

CreateEmbeddings(texts) ==
    /\ LET svc == ensure_vocabulary(Service, texts)
       IN  /\ vocabulary' = svc.vocabulary
           /\ idf_values' = svc.idf_values
           /\ initialized' = svc.initialized
           /\ built_from' = svc.built_from
           /\ \E draws \in Draws(svc, texts) :
                  e_out' = embed_texts(svc, texts, draws)
    /\ e_texts' = texts
    /\ UNCHANGED <<storeVars, callVars, searchVars, threadVars, chunkVars, appVars>>

\* SimpleEmbeddingService(), lines 12-16
InitEmbed ==
    /\ NoEmbedder /\ NoApp
    /\ metadata_file = NoFile /\ documents = <<>> /\ embeddings = <<>>
    /\ alive = TRUE
    /\ NoCall /\ NoSearch /\ NoThreads /\ NoChunking

\* The calls made on the service: first a list of texts (the chunks of the
\* corpus, flask_app.py line 57, or a query, if there are none), then one
\* text at a time (a query, flask_app.py line 150)
QueryTexts == {<<>>, <<"a">>, <<"B.">>, <<"a", "B.">>, <<"B.", "B.">>}
CallTexts ==
    IF ~initialized THEN TextLists ELSE {<<t>> : t \in QueryTexts}

NextEmbed == \E texts \in CallTexts : CreateEmbeddings(texts)

SpecEmbed == InitEmbed /\ [][NextEmbed]_vars

\* the accumulated vector has the L2 norm 0: every component is ln(1)
NormIsZero(acc) == \A b \in 1..Len(acc) : acc[b].num = acc[b].den

\* C18: _text_to_embedding gives the fallback vector only for a text whose
\* accumulated tf*idf vector has the L2 norm 0; a text whose accumulated
\* vector is nonzero gets that vector, normalized to unit length.
C18_FallbackOnlyForZeroNorm ==
    \A i \in 1..Len(e_out) :
        LET acc == accumulate(e_texts[i], vocabulary, idf_values)
        IN  /\ e_out[i].kind = "random" => NormIsZero(acc)
            /\ ~NormIsZero(acc) => e_out[i] = Normalized(acc)

\* C19: with the vocabulary and the IDF table fixed, _text_to_embedding
\* returns the same vector for the same text: equal texts of one
\* create_embeddings call get equal vectors.
C19_Deterministic ==
    \A i, j \in 1..Len(e_out) : e_texts[i] = e_texts[j] => e_out[i] = e_out[j]

\* df: the reference texts that hold the token w
DocFreq(w) ==
    Cardinality({i \in 1..Len(built_from) :
        \E k \in 1..Len(built_from[i]) : token(built_from[i][k]) = w})

\* C20 as stated: after _build_vocabulary on D reference texts every
\* vocabulary token has the weight ln(D / (df + 1)), and that weight is
\* non-negative.
C20_IdfNonNegative ==
    \A w \in DOMAIN vocabulary :
        /\ idf_values[w] = Ln(Len(built_from), DocFreq(w) + 1)
        /\ idf_values[w].num >= idf_values[w].den

\* C20: after _build_vocabulary on D reference texts every vocabulary token
\* is in df >= 1 of the texts and has the weight ln(D / (df + 1)); the
\* weight is negative when the token is in every text (df = D), zero when
\* df = D - 1, and positive only when df < D - 1.
C20_IdfFormula ==
    \A w \in DOMAIN vocabulary :
        LET D == Len(built_from)
            df == DocFreq(w)
        IN  /\ df >= 1
            /\ idf_values[w] = Ln(D, df + 1)
            /\ idf_values[w].num < idf_values[w].den <=> df = D
            /\ idf_values[w].num = idf_values[w].den <=> df = D - 1
            /\ idf_values[w].num > idf_values[w].den <=> df < D - 1

\* C20 witness: of three reference texts one holds "a", whose weight is
\* ln(3/2), and two hold "b", whose weight is ln(3/3)
C20_Witness ==
    /\ Len(built_from) = 3
    /\ DOMAIN vocabulary = {"a", "b"}
    /\ idf_values["a"] = Ln(3, 2)
    /\ idf_values["b"] = Ln(3, 3)

----------------------------------------------------------------------------
(* The Flask application (flask_app.py): one process with its embedding
   service and its vector store, serving one request at a time *)

\* the contents of the chunks of a corpus: texts of one word
AppCorpora == SeqsUpTo({<<"a">>, <<"B.">>}, MaxDocs)

\* the Documents process_documents_from_directory makes of the chunks
DocsOf(contents) ==
    [i \in 1..Len(contents) |-> Document(contents[i], "corpus.txt", i - 1, "meta")]
Contents(docs) == [i \in 1..Len(docs) |-> docs[i][1]]

\* The snapshot file an earlier process left: none, or the chunks of a
\* corpus, each with the unit vector that process gave it
AppSnapshots ==
    {NoFile}
    \cup {JsonFile(DocsToJson(DocsOf(c)), "list", [i \in 1..Len(c) |-> <<1, 0>>]) :
              c \in AppCorpora \ {<<>>}}

\* lines 28-34: the module is loaded, SimpleVectorStore() reads the snapshot
InitApp ==
    /\ metadata_file \in AppSnapshots
    /\ documents = load_existing_data(metadata_file)[1]
    /\ embeddings = load_existing_data(metadata_file)[2]
    /\ alive = TRUE
    /\ app_initialized = FALSE
    /\ dir_chunks \in AppCorpora
    /\ NoRequests
    /\ NoEmbedder /\ NoCall /\ NoSearch /\ NoThreads /\ NoChunking

\* what the disk can do while the process lives on
AppIo == {"ok", "open_fails", "write_fails"}

\* initialize_services(), lines 36-74, when _initialized is false: the
\* service and the store after it. The vectors are float32 already, so
\* line 72 of add_documents leaves them as they are.
initialize_services(io, draws) ==
    LET svc0 == [Service EXCEPT !.initialized = TRUE]                  \* line 46
    IN  IF dir_chunks = <<>>                                           \* lines 50, 54
        THEN [svc |-> svc0, documents |-> documents, embeddings |-> embeddings,
              file |-> metadata_file, e_texts |-> e_texts, e_out |-> e_out]
        ELSE LET svc1 == ensure_vocabulary(svc0, dir_chunks)           \* line 57
                 docs == DocsOf(dir_chunks)
                 embs == embed_texts(svc1, dir_chunks, draws)
             IN  [svc |-> svc1, documents |-> docs, embeddings |-> embs, \* line 61
                  file |-> save_data_file(docs, embs, io, metadata_file),
                  e_texts |-> dir_chunks, e_out |-> embs]

\* the process as it is, for a request that finds _initialized true
Initialized ==
    [svc |-> Service, documents |-> documents, embeddings |-> embeddings,
     file |-> metadata_file, e_texts |-> e_texts, e_out |-> e_out]

IngestDraws ==
    IF app_initialized \/ dir_chunks = <<>> THEN {<<>>}
    ELSE Draws(ensure_vocabulary([Service EXCEPT !.initialized = TRUE], dir_chunks),
               dir_chunks)

\* lines 128-130 and 116-117
Ready(io, draws) ==
    IF app_initialized THEN Initialized ELSE initialize_services(io, draws)

Install(app) ==
    /\ vocabulary' = app.svc.vocabulary
    /\ idf_values' = app.svc.idf_values
    /\ initialized' = app.svc.initialized
    /\ built_from' = app.svc.built_from
    /\ documents' = app.documents
    /\ embeddings' = app.embeddings
    /\ metadata_file' = app.file
    /\ e_texts' = app.e_texts
    /\ e_out' = app.e_out
    /\ app_initialized' = TRUE
    /\ UNCHANGED <<alive, log, arg_mismatch, dir_chunks, req_pc, ingestions>>
    /\ UNCHANGED <<searchVars, threadVars, chunkVars>>

\* GET /documents/count, lines 113-122
get_document_count ==
    /\ \E io \in AppIo, draws \in IngestDraws : Install(Ready(io, draws))
    /\ op' = "count"
    /\ ret' = "200"

\* POST /query with the query q, lines 124-177. vector_store.search changes
\* nothing; what it and the answer generator return is the body of the
\* response, which is not part of the state.
query_documents(q) ==
    /\ \E io \in AppIo, draws \in IngestDraws :
           LET app == Ready(io, draws)
           IN  IF q = <<>> \/ app.documents = <<>>                     \* lines 138, 144
               THEN Install(app) /\ ret' = "400"
               ELSE LET svc == ensure_vocabulary(app.svc, <<q>>)       \* line 150
                    IN  \E draw \in Draws(svc, <<q>>) :
                            /\ Install([app EXCEPT
                                   !.svc = svc,
                                   !.e_texts = <<q>>,
                                   !.e_out = embed_texts(svc, <<q>>, draw)])
                            /\ ret' = "200"
    /\ op' = "query"

NextApp == get_document_count \/ \E q \in QueryTexts : query_documents(q)

SpecApp == InitApp /\ [][NextApp]_vars

\* C17: whenever a query is embedded and searched against a store that is
\* not empty, filled in this process or restored from the snapshot, the
\* vocabulary and the IDF table the query is embedded with were built from
\* the contents of the chunks in the store, not by the call that embeds the
\* query.
C17_VocabularyFromStore ==
    (op = "query" /\ ret = "200")
        => /\ documents # <<>>
           /\ built_from = Contents(documents)
           /\ LET built == build_vocabulary(Contents(documents), <<>>)
              IN  vocabulary = built.vocabulary /\ idf_values = built.idf_values

----------------------------------------------------------------------------
(* _build_vocabulary called on a new service with reference texts of more
   distinct words than the vocabulary keeps *)

MaxRefTexts == 4
VocabTexts == {<<>>, <<"a">>, <<"B.">>, <<"c">>, <<"a", "c">>}
VocabTextLists == SeqsUpTo(VocabTexts, MaxRefTexts)

\* _build_vocabulary(texts), lines 48-71
BuildVocabulary(texts) ==
    /\ built_from = <<>> /\ ~initialized
    /\ LET built == build_vocabulary(texts, idf_values)
       IN  /\ vocabulary' = built.vocabulary
           /\ idf_values' = built.idf_values
    /\ built_from' = texts
    /\ UNCHANGED <<initialized, e_texts, e_out, appVars>>
    /\ UNCHANGED <<storeVars, callVars, searchVars, threadVars, chunkVars>>

NextVocabulary ==
    /\ built_from = <<>>
    /\ \E texts \in VocabTextLists : BuildVocabulary(texts)

SpecVocabulary == InitEmbed /\ [][NextVocabulary]_vars

\* the places <<i, k>> of the reference texts that hold the token w
Occurrences(w) ==
    UNION {{<<i, k>> : k \in {k \in 1..Len(built_from[i]) : token(built_from[i][k]) = w}} :
              i \in 1..Len(built_from)}
\* the distinct tokens of the reference texts
DistinctTokens ==
    {token(w) : w \in UNION {Range(built_from[i]) : i \in 1..Len(built_from)}}

\* C21: after _build_vocabulary the vocabulary has exactly
\* min(VocabularySize, number of distinct tokens) entries, its indices are
\* exactly 0..N-1, no two tokens share one, and a token of strictly higher
\* global frequency never has a larger index than one of lower frequency.
C21_VocabularyIndices ==
    built_from # <<>>
        => LET N == Cardinality(DOMAIN vocabulary)
           IN  /\ DOMAIN vocabulary \subseteq DistinctTokens
               /\ N = Min(VocabularySize, Cardinality(DistinctTokens))
               /\ {vocabulary[w] : w \in DOMAIN vocabulary} = 0..(N - 1)
               /\ \A w1, w2 \in DOMAIN vocabulary :
                      /\ w1 # w2 => vocabulary[w1] # vocabulary[w2]
                      /\ Cardinality(Occurrences(w1)) > Cardinality(Occurrences(w2))
                             => vocabulary[w1] < vocabulary[w2]

\* C21 witness: three distinct tokens, of which the vocabulary kept
\* VocabularySize, the more frequent one first
C21_Witness ==
    /\ Cardinality(DistinctTokens) = 3
    /\ Cardinality(DOMAIN vocabulary) = VocabularySize
    /\ \E w1, w2 \in DOMAIN vocabulary :
           /\ Cardinality(Occurrences(w1)) > Cardinality(Occurrences(w2))
           /\ vocabulary[w1] = 0 /\ vocabulary[w2] = 1

----------------------------------------------------------------------------
(* what create_embeddings returns *)

\* C22: create_embeddings(texts) returns exactly len(texts) vectors, each
\* of the embedding dimension, the i-th being what _text_to_embedding gives
\* for texts[i] under the vocabulary the call leaves, for every list of
\* texts, those without a token included.
C22_OneVectorPerText ==
    initialized
        => /\ Len(e_out) = Len(e_texts)
           /\ \A i \in 1..Len(e_texts) :
                  /\ Len(e_out[i].v) = embedder_dim
                  /\ \E draw \in RandomUnitVectors :
                         e_out[i] = text_to_embedding(e_texts[i], vocabulary,
                                                      idf_values, draw)

\* C22 witness: a call of three texts, the first without a token, has
\* returned three vectors, the second computed from the words of its text
C22_Witness ==
    /\ Len(e_texts) = 3 /\ Len(e_out) = 3
    /\ e_texts[1] = <<>> /\ e_out[1].kind = "random"
    /\ e_texts[2] # <<>> /\ e_out[2].kind = "normalized"

----------------------------------------------------------------------------
(* where _chunk_text ends a window that does not reach the end of the text *)

Last(S) == CHOOSE p \in S : \A q \in S : q <= p

\* C23: for every chunk_size, those below the sentence window included,
\* and every window [start, start + chunk_size) that does not reach the end
\* of the text: if the last "." of the window lies in its final
\* SentenceWindow characters the chunk ends right after that "."; otherwise
\* if the window has a space after its first character the chunk ends at
\* the last such space; otherwise the chunk ends at start + chunk_size.
\* (A "." exactly SentenceWindow characters before the window's end may be
\* taken either way; windows that begin before the text are left aside.)
C23_BreakPoints ==
    \A i \in 1..Len(windows) :
        LET from == windows[i][1]
            end == windows[i][2]
            dots == {p \in from..(from + chunk_size - 1) : text[p + 1] = "."}
            spaces == {p \in (from + 1)..(from + chunk_size - 1) : text[p + 1] = " "}
            word_end == IF spaces # {} THEN Last(spaces) ELSE from + chunk_size
        IN  (0 <= from /\ from + chunk_size < Len(text))
                => IF dots # {} /\ Last(dots) > from + chunk_size - SentenceWindow
                   THEN end = Last(dots) + 1
                   ELSE IF dots # {} /\ Last(dots) = from + chunk_size - SentenceWindow
                   THEN end \in {Last(dots) + 1, word_end}
                   ELSE end = word_end

----------------------------------------------------------------------------
(* how often the vocabulary is built *)

\* C24: the vocabulary and the IDF table are built at most once in the
\* life of an embedder: once a create_embeddings call has returned, no
\* later create_embeddings call changes the vocabulary or the IDF table.
C24_BuiltAtMostOnce ==
    [][initialized => (vocabulary' = vocabulary /\ idf_values' = idf_values)]_vars

----------------------------------------------------------------------------
(* what a restart finds after add_documents calls whose writes may fail *)

----------------------------------------------------------------------------
(* Requests served by concurrent threads (app.run, line 188), each a
   GET /documents/count, lines 113-122, which calls initialize_services,
   lines 36-74, when it finds _initialized false. A request thread stands
     "L116"  before `if not _initialized`, line 116
     "L39"   before `if _initialized: return`, line 39
     "L46"   before the body of the try block, lines 43-67
     "L69"   before `_initialized = True`, line 69
     "L118"  before the response of line 118
     "L121"  in the handler of the exception, lines 119-121
     "done"  after its response *)

MaxRequests == 2
Requests == 1..MaxRequests

\* the module is loaded in a process that finds no snapshot file
InitRequests ==
    /\ metadata_file = NoFile /\ documents = <<>> /\ embeddings = <<>>
    /\ alive = TRUE
    /\ app_initialized = FALSE
    /\ dir_chunks \in AppCorpora
    /\ req_pc = [r \in Requests |-> "L116"]
    /\ ingestions = 0
    /\ NoEmbedder /\ NoCall /\ NoSearch /\ NoThreads /\ NoChunking

Goto(r, label) == req_pc' = [req_pc EXCEPT ![r] = label]

\* line 116
L116(r) ==
    /\ req_pc[r] = "L116"
    /\ Goto(r, IF app_initialized THEN "L118" ELSE "L39")
    /\ UNCHANGED <<app_initialized, dir_chunks, ingestions, embedVars>>
    /\ UNCHANGED <<storeVars, callVars, searchVars, threadVars, chunkVars>>

\* line 39
L39(r) ==
    /\ req_pc[r] = "L39"
    /\ Goto(r, IF app_initialized THEN "L118" ELSE "L46")
    /\ UNCHANGED <<app_initialized, dir_chunks, ingestions, embedVars>>
    /\ UNCHANGED <<storeVars, callVars, searchVars, threadVars, chunkVars>>

\* lines 43-67: either os.listdir raises at line 50, after line 46, or
\* the documents are processed, embedded and added to the store
L46(r) ==
    /\ req_pc[r] = "L46"
    /\ \/ /\ initialized' = TRUE
          /\ Goto(r, "L121")
          /\ UNCHANGED <<vocabulary, idf_values, built_from, e_texts, e_out>>
          /\ UNCHANGED <<storeVars, ingestions>>
       \/ \E io \in AppIo :
          \E draws \in Draws(ensure_vocabulary([Service EXCEPT !.initialized = TRUE],
                                               dir_chunks), dir_chunks) :
              LET app == initialize_services(io, draws)
              IN  /\ vocabulary' = app.svc.vocabulary
                  /\ idf_values' = app.svc.idf_values
                  /\ initialized' = app.svc.initialized
                  /\ built_from' = app.svc.built_from
                  /\ documents' = app.documents
                  /\ embeddings' = app.embeddings
                  /\ metadata_file' = app.file
                  /\ e_texts' = app.e_texts
                  /\ e_out' = app.e_out
                  /\ ingestions' = IF dir_chunks # <<>> THEN ingestions + 1 ELSE ingestions
                  /\ Goto(r, "L69")
                  /\ UNCHANGED alive
    /\ UNCHANGED <<app_initialized, dir_chunks>>
    /\ UNCHANGED <<callVars, searchVars, threadVars, chunkVars>>

\* line 69
L69(r) ==
    /\ req_pc[r] = "L69"
    /\ app_initialized' = TRUE
    /\ Goto(r, "L118")
    /\ UNCHANGED <<dir_chunks, ingestions, embedVars>>
    /\ UNCHANGED <<storeVars, callVars, searchVars, threadVars, chunkVars>>

\* line 118
L118(r) ==
    /\ req_pc[r] = "L118"
    /\ op' = "count" /\ ret' = "200"
    /\ Goto(r, "done")
    /\ UNCHANGED <<app_initialized, dir_chunks, ingestions, embedVars>>
    /\ UNCHANGED <<storeVars, log, arg_mismatch, searchVars, threadVars, chunkVars>>

\* lines 119-121
L121(r) ==
    /\ req_pc[r] = "L121"
    /\ op' = "count" /\ ret' = "500"
    /\ Goto(r, "done")
    /\ UNCHANGED <<app_initialized, dir_chunks, ingestions, embedVars>>
    /\ UNCHANGED <<storeVars, log, arg_mismatch, searchVars, threadVars, chunkVars>>

NextRequests ==
    \E r \in Requests : L116(r) \/ L39(r) \/ L46(r) \/ L69(r) \/ L118(r) \/ L121(r)

SpecRequests == InitRequests /\ [][NextRequests]_vars

\* C26: for every interleaving of concurrent requests that arrive before
\* the initialization has completed, the document ingestion and
\* vector_store.add_documents run at most once in the process.
C26_IngestedAtMostOnce == ingestions <= 1

----------------------------------------------------------------------------
(* _process_txt, lines 186-211: the text of a file is cleaned by
   _clean_text, lines 220-250, and cut by _chunk_text; every chunk becomes
   the content of a Document *)

\* the characters of a file: those of Chars, a character beyond ASCII and
\* an ASCII character that line 234 does not keep
NonAscii == {"é"}
NotKept == {"<"}
RawChars == Chars \cup NonAscii \cup NotKept
RawTexts == SeqsUpTo(RawChars, MaxTextLen)
Whitespace == {" "}
Punctuation == {"."}
Lowercase == {"a"}

RECURSIVE drop_while(_, _)
drop_while(t, class) ==
    IF t # <<>> /\ Head(t) \in class THEN drop_while(Tail(t), class) ELSE t

\* re.sub(class+, ' ', t), lines 230, 233 and 237
RECURSIVE squeeze(_, _)
squeeze(t, class) ==
    IF t = <<>> THEN <<>>
    ELSE IF Head(t) \in class
         THEN <<" ">> \o squeeze(drop_while(t, class), class)
         ELSE <<Head(t)>> \o squeeze(Tail(t), class)

\* line 234: every character that is not kept becomes a space
blank_not_kept(t) == [i \in 1..Len(t) |-> IF t[i] \in NotKept THEN " " ELSE t[i]]

\* line 246: re.sub(r'\s+([.,!?;:])', r'\1', t)
RECURSIVE no_space_before_punctuation(_)
no_space_before_punctuation(t) ==
    IF t = <<>> THEN <<>>
    ELSE LET rest == drop_while(t, Whitespace)
         IN  IF Head(t) \in Whitespace /\ rest # <<>> /\ Head(rest) \in Punctuation
             THEN <<Head(rest)>> \o no_space_before_punctuation(Tail(rest))
             ELSE <<Head(t)>> \o no_space_before_punctuation(Tail(t))

\* line 247: re.sub(r'([.!?])\s*([a-z])', r'\1 \2', t)
RECURSIVE space_after_sentence(_)
space_after_sentence(t) ==
    IF t = <<>> THEN <<>>
    ELSE LET rest == drop_while(Tail(t), Whitespace)
         IN  IF Head(t) \in Punctuation /\ rest # <<>> /\ Head(rest) \in Lowercase
             THEN <<Head(t), " ", Head(rest)>> \o space_after_sentence(Tail(rest))
             ELSE <<Head(t)>> \o space_after_sentence(Tail(t))

\* _clean_text(text); line 240 finds no newline left after line 237
clean_text(t) ==
    LET spaced == squeeze(t, Whitespace)                         \* line 230
        ascii == squeeze(spaced, NonAscii)                       \* line 233
        kept == blank_not_kept(ascii)                            \* line 234
        single == squeeze(kept, Whitespace)                      \* line 237
        stripped == strip(single)                                \* line 243
    IN  space_after_sentence(no_space_before_punctuation(stripped))

\* the chunk sizes of _process_txt in the model: the short ones, and one
\* that no text of the model exceeds
CleanConfigs == ShortConfigs \cup {<<SentenceWindow, 0>>}

\* lines 191-197: the file is read, its text is not blank and is cleaned;
\* _chunk_text is about to be called on it
InitProcessTxt ==
    /\ \E cfg \in CleanConfigs :
           /\ chunk_size = cfg[1] /\ chunk_overlap = cfg[2]
    /\ \E raw \in RawTexts :
           /\ strip(raw) # <<>>                                  \* line 194
           /\ text = clean_text(raw)
    /\ pc = "call"
    /\ start = 0 /\ chunks = <<>> /\ windows = <<>>
    /\ metadata_file = NoFile /\ documents = <<>> /\ embeddings = <<>>
    /\ alive = TRUE
    /\ NoCall /\ NoSearch /\ NoThreads /\ NoService

SpecProcessTxt == InitProcessTxt /\ [][NextChunk]_vars

\* C27: every chunk _chunk_text returns for the cleaned text of a file
\* whose raw text is not blank, and so the content of every Document made
\* of it, is non-empty and has no whitespace at its edges.
C27_ChunksNonEmptyStripped ==
    \A i \in 1..Len(chunks) : chunks[i] # <<>> /\ strip(chunks[i]) = chunks[i]

----------------------------------------------------------------------------
(* how far each emitted chunk reaches *)

\* the windows of the iterations that emitted a chunk, lines 283-285
EmittedWindows ==
    SelectSeq(windows, LAMBDA w : strip(slice(text, w[1], w[2])) # <<>>)

\* the position of the text at which the slice of the window w ends
WindowEnd(w) == SliceIndex(w[2], Len(text))

\* C28: on a text longer than chunk_size, every chunk emitted after the
\* first covers a position of the text beyond the end of the window of the
\* chunk emitted before it: no chunk lies wholly in the overlap with its
\* predecessor.
C28_ChunkReachesBeyondPredecessor ==
    Len(text) > chunk_size
        => \A i \in 2..Len(EmittedWindows) :
               WindowEnd(EmittedWindows[i]) > WindowEnd(EmittedWindows[i - 1])

====
